---- MODULE Spec2Model ----
(***************************************************************************)
(* A model of parti_game (src/src/game/lib.rs, src/src/main.rs): the       *)
(* skeleton pose evaluators GameObject::get_skinning and                   *)
(* GameObject::get_skinning_at, the generic command Invoker, and the       *)
(* World / main loop that drive them.                                      *)
(*                                                                         *)
(* Arithmetic.  The program computes in f32.  The model computes in exact  *)
(* rational arithmetic: a matrix is a Dim x Dim table of integer           *)
(* numerators over one positive denominator, kept in lowest terms, and     *)
(* elapsed time is an integer number of ticks, TicksPerUnit ticks making   *)
(* one time unit.  The rounding of f32 operations is not modelled.         *)
(***************************************************************************)
EXTENDS Integers, Sequences, FiniteSets, TLC

\* ------------------------------------------------------------------ bounds

\* Most joints in a skeleton.
MaxJoints == 3

\* Longest animation track (number of samples).
MaxLen == 3

\* ------------------------------------------------------- program constants

\* Matrix4: the matrices are 4 x 4.
Dim == 4

\* j.parent == 255: the parent index that marks a root joint.
RootSentinel == 255

\* let duration = 4.0
Duration == 4

\* device.create_constant_buffer(64): the skinning buffer holds 64 matrices.
SkinningCapacity == 64

\* -------------------------------------------------------------- arithmetic

Abs(x) == IF x < 0 THEN -x ELSE x

RECURSIVE GCD(_, _)
GCD(a, b) == IF b = 0 THEN Abs(a) ELSE GCD(Abs(b), Abs(a) % Abs(b))

LCM(a, b) == (a * b) \div GCD(a, b)

RECURSIVE LCMUpTo(_)
LCMUpTo(n) == IF n <= 1 THEN 1 ELSE LCM(n, LCMUpTo(n - 1))

\* Ticks per time unit: fine enough that every sample boundary k * 4.0 / L
\* and every midpoint between two boundaries is a whole number of ticks,
\* for every track length L in 1..MaxLen.
TicksPerUnit == LCMUpTo(MaxLen) \div 2

TicksPerCycle == Duration * TicksPerUnit

Idx == 1..Dim

\* A matrix is [n |-> numerators, d |-> denominator], n[i][j] being the entry
\* of row i and column j.  The operations below do not reduce the fraction;
\* Reduced does, and gives every matrix one representation.

RECURSIVE GCDOfEntries(_, _, _)
\* The greatest common divisor of g and the first k numerators of n, counted
\* row by row.
GCDOfEntries(n, k, g) ==
    IF k = 0 \/ g = 1
    THEN g
    ELSE GCDOfEntries(n, k - 1, GCD(g, n[((k - 1) \div Dim) + 1][((k - 1) % Dim) + 1]))

\* The matrix m in lowest terms.
Reduced(m) ==
    LET g == GCDOfEntries(m.n, Dim * Dim, m.d)
    IN  IF g = 1
        THEN m
        ELSE [n |-> [i \in Idx |-> [j \in Idx |-> m.n[i][j] \div g]], d |-> m.d \div g]

\* cgmath::One::one() for Matrix4: the identity.
One == [n |-> [i \in Idx |-> [j \in Idx |-> IF i = j THEN 1 ELSE 0]], d |-> 1]

\* Matrix4 * Matrix4: row i of a times column j of b, four terms each.
MatMul(a, b) ==
    LET x == a.n
        y == b.n
    IN  [n |-> [i \in Idx |-> [j \in Idx |->
                  x[i][1] * y[1][j] + x[i][2] * y[2][j]
                      + x[i][3] * y[3][j] + x[i][4] * y[4][j]]],
         d |-> a.d * b.d]

\* Matrix4 + Matrix4, component-wise
MatAdd(a, b) ==
    [n |-> [i \in Idx |-> [j \in Idx |-> a.n[i][j] * b.d + b.n[i][j] * a.d]],
     d |-> a.d * b.d]

\* Matrix4 - Matrix4, component-wise
MatSub(a, b) ==
    [n |-> [i \in Idx |-> [j \in Idx |-> a.n[i][j] * b.d - b.n[i][j] * a.d]],
     d |-> a.d * b.d]

\* Matrix4 * scalar, the scalar being num / den
MatScale(a, num, den) ==
    [n |-> [i \in Idx |-> [j \in Idx |-> a.n[i][j] * num]], d |-> a.d * den]

\* ------------------------------------------------- the skeleton evaluators

\* The outcome of an evaluation that hit a panic (an unwrap of None, an index
\* out of range): nothing is returned.
Panicked == [panicked |-> TRUE, skinning |-> <<>>, local |-> <<>>]

\* SamplePosition without the wrap of time into one cycle.
SamplePositionNoWrap(time, length) ==
    [num |-> time * length, den |-> TicksPerCycle]

\* SamplePosition with the rate inverted: duration / length samples per unit.
SamplePositionInvertedRate(time, length) ==
    [num |-> (time % TicksPerCycle) * Duration * Duration, den |-> TicksPerCycle * length]

\* t = (time as f32 % duration) * sample_per_second, where
\* sample_per_second = length as f32 / duration: a rational num / den.
\* With time in ticks, (time % duration) is (time % TicksPerCycle) ticks.
SamplePosition(time, length) ==
    [num |-> (time % TicksPerCycle) * length, den |-> TicksPerCycle]

\* Floor rounding to the nearest whole number, halves upwards.
FloorNearest(t) == (2 * t.num + t.den) \div (2 * t.den)

\* t.floor() as usize
Floor(t) == t.num \div t.den

\* t.ceil() as usize
Ceil(t) == (t.num + t.den - 1) \div t.den

\* Index2 without the wrap of the sample after the last to the first.
Index2NoWrap(ceiled, length) == ceiled

\* if ceiled == length { 0 } else { ceiled }
Index2(ceiled, length) == IF ceiled = length THEN 0 ELSE ceiled

\* t - index_1 as f32
BlendFactor(t, index_1) == [num |-> t.num - index_1 * t.den, den |-> t.den]

\* pose_1 + (pose_2 - pose_1) * blend_factor
Blend(pose_1, pose_2, blend_factor) ==
    MatAdd(pose_1, MatScale(MatSub(pose_2, pose_1), blend_factor.num, blend_factor.den))

\* The blended pose of the non-empty track v at elapsed time `time`; the
\* indexing v[index_1], v[index_2] panics out of range.
BlendedPose(v, time) ==
    LET length       == Len(v)
        t            == SamplePosition(time, length)
        index_1      == Floor(t)
        index_2      == Index2(Ceil(t), length)
        blend_factor == BlendFactor(t, index_1)
    IN  IF index_1 >= length \/ index_2 >= length
        THEN [panicked |-> TRUE]
        ELSE [panicked |-> FALSE,
              pose |-> Blend(v[index_1 + 1].pose, v[index_2 + 1].pose, blend_factor)]

\* FramePose that reads the sample after the one asked for.
FramePoseNext(v, index) == v[((index + 1) % Len(v)) + 1].pose

\* FramePose with the frame index clamped to the last sample, not wrapped.
FramePoseClamped(v, index) ==
    v[(IF index >= Len(v) THEN Len(v) - 1 ELSE index) + 1].pose

\* let inx = index % length; the pose of sample inx of the non-empty track v
FramePose(v, index) == v[(index % Len(v)) + 1].pose

\* local.get that finds the identity in every written entry
LocalGetIdentity(local, parent) ==
    IF parent >= 0 /\ parent < Len(local)
    THEN [some |-> TRUE, value |-> One]
    ELSE [some |-> FALSE]

\* local.get(..).unwrap_or(identity): a missing entry reads as the identity
LocalGetOrIdentity(local, parent) ==
    IF parent >= 0 /\ parent < Len(local)
    THEN [some |-> TRUE, value |-> local[parent + 1]]
    ELSE [some |-> TRUE, value |-> One]

\* local.get(j.parent as usize): the entry, or None past the end (a negative
\* i32 cast to usize is past the end too).
LocalGet(local, parent) ==
    IF parent >= 0 /\ parent < Len(local)
    THEN [some |-> TRUE, value |-> local[parent + 1]]
    ELSE [some |-> FALSE]

\* Vec::insert(index, element): shifts the elements from index on to the right;
\* panics when index > len.
VecInsert(vec, index, element) ==
    IF index < 0 \/ index > Len(vec)
    THEN [panicked |-> TRUE]
    ELSE [panicked |-> FALSE,
          vec |-> SubSeq(vec, 1, index) \o <<element>> \o SubSeq(vec, index + 1, Len(vec))]

\* animations.get(j.joint_index as usize)
TrackOf(animations, joint_index) ==
    IF joint_index >= 0 /\ joint_index < Len(animations)
    THEN [some |-> TRUE, value |-> animations[joint_index + 1]]
    ELSE [some |-> FALSE]

\* The closure of get_skinning applied to joint j: the value stored in
\* `local` at j.joint_index and the transform output for j.
JointSkinning(j, animations, local, time) ==
    LET parent == LocalGet(local, j.parent)
        p      == IF j.parent = RootSentinel THEN One ELSE parent.value
        track  == TrackOf(animations, j.joint_index)
        v      == track.value
        blended == BlendedPose(v, time)
        pose   == blended.pose
        stored == IF track.some /\ Len(v) > 0 THEN Reduced(MatMul(p, pose)) ELSE j.bind
        transform ==
            IF track.some
            THEN MatMul(p, IF Len(v) > 0 THEN MatMul(pose, j.inverse) ELSE j.bind)
            ELSE j.bind
        inserted == VecInsert(local, j.joint_index, stored)
    IN  IF j.parent # RootSentinel /\ ~parent.some
        THEN [panicked |-> TRUE]
        ELSE IF track.some /\ Len(v) > 0 /\ blended.panicked
        THEN [panicked |-> TRUE]
        ELSE IF inserted.panicked
        THEN [panicked |-> TRUE]
        ELSE [panicked |-> FALSE, local |-> inserted.vec,
              skinning |-> [transform |-> Reduced(transform)]]

RECURSIVE MapJointsReversed(_, _, _, _, _, _)
\* MapJoints collecting each matrix in front of the ones before it.
MapJointsReversed(joints, animations, time, k, local, out) ==
    IF k > Len(joints)
    THEN [panicked |-> FALSE, skinning |-> out, local |-> local]
    ELSE CHOOSE collected \in
            { IF r.panicked
              THEN Panicked
              ELSE MapJointsReversed(joints, animations, time, k + 1, r.local,
                                     <<r.skinning>> \o out) :
                r \in { JointSkinning(joints[k], animations, local, time) } } : TRUE

RECURSIVE MapJointsRange(_, _, _, _, _, _)
\* The closure of get_skinning applied to the joints lo..hi in order, from
\* the scratch vector and the matrices of `acc`; a panic ends the iteration.
\* (The range is walked as its first half and then its second, which visits
\* the joints in the order of the iterator; r ranges over the one result of
\* the closure for a joint, so that the result is computed once.)
MapJointsRange(joints, animations, time, lo, hi, acc) ==
    IF acc.panicked \/ lo > hi
    THEN acc
    ELSE IF lo = hi
    THEN CHOOSE collected \in
            { IF r.panicked
              THEN Panicked
              ELSE [panicked |-> FALSE, skinning |-> Append(acc.skinning, r.skinning),
                    local |-> r.local] :
                r \in { JointSkinning(joints[lo], animations, acc.local, time) } } : TRUE
    ELSE CHOOSE collected \in
            { MapJointsRange(joints, animations, time, ((lo + hi) \div 2) + 1, hi, first) :
                first \in { MapJointsRange(joints, animations, time, lo,
                                           (lo + hi) \div 2, acc) } } : TRUE

\* self.joints.iter().map(|j| ...).collect() of get_skinning, from the k-th
\* joint on, with the scratch vector `local` and the matrices `out` so far.
MapJoints(joints, animations, time, k, local, out) ==
    MapJointsRange(joints, animations, time, k, Len(joints),
                   [panicked |-> FALSE, skinning |-> out, local |-> local])

\* GameObject::get_skinning(time): the Vec<Skinning> returned and, beside it,
\* the scratch vector `local` as the call leaves it.
GetSkinning(joints, animations, time) ==
    IF Len(joints) > 0
    THEN MapJoints(joints, animations, time, 1, <<>>, <<>>)
    ELSE [panicked |-> FALSE, skinning |-> << [transform |-> One] >>, local |-> <<>>]

\* The closure of get_skinning_at applied to joint j.
JointSkinningAt(j, animations, local, index) ==
    LET parent == LocalGet(local, j.parent)
        p      == IF j.parent = RootSentinel THEN One ELSE parent.value
        track  == TrackOf(animations, j.joint_index)
        v      == track.value
        pose   == FramePose(v, index)
        stored == IF track.some /\ Len(v) > 0 THEN Reduced(MatMul(p, pose)) ELSE j.bind
        output ==
            IF track.some
            THEN MatMul(p, IF Len(v) > 0 THEN MatMul(pose, j.inverse) ELSE j.bind)
            ELSE j.bind
        inserted == VecInsert(local, j.joint_index, stored)
    IN  IF j.parent # RootSentinel /\ ~parent.some
        THEN [panicked |-> TRUE]
        ELSE IF inserted.panicked
        THEN [panicked |-> TRUE]
        ELSE [panicked |-> FALSE, local |-> inserted.vec,
              skinning |-> [transform |-> Reduced(output)]]

RECURSIVE MapJointsAt(_, _, _, _, _, _)
\* self.joints.iter().map(|j| ...).collect() of get_skinning_at.
MapJointsAt(joints, animations, index, k, local, out) ==
    IF k > Len(joints)
    THEN [panicked |-> FALSE, skinning |-> out, local |-> local]
    ELSE CHOOSE collected \in
            { IF r.panicked
              THEN Panicked
              ELSE MapJointsAt(joints, animations, index, k + 1, r.local,
                               Append(out, r.skinning)) :
                r \in { JointSkinningAt(joints[k], animations, local, index) } } : TRUE

\* GetSkinningAt returning an empty Vec for a skeleton of zero joints.
GetSkinningAtNoFallback(joints, animations, index) ==
    IF Len(joints) > 0
    THEN MapJointsAt(joints, animations, index, 1, <<>>, <<>>)
    ELSE [panicked |-> FALSE, skinning |-> <<>>, local |-> <<>>]

\* GameObject::get_skinning_at(index): the Vec<Skinning> returned and, beside
\* it, the scratch vector `local` as the call leaves it.
GetSkinningAt(joints, animations, index) ==
    IF Len(joints) > 0
    THEN MapJointsAt(joints, animations, index, 1, <<>>, <<>>)
    ELSE [panicked |-> FALSE, skinning |-> << [transform |-> One] >>, local |-> <<>>]

\* ------------------------------------------------------ skeletons evaluated

\* The evaluated object (GameObject.joints, GameObject.animations), the
\* evaluator call in progress, and what it returned: `result` is the
\* Vec<Skinning> (or the panic), `local` the scratch vector at the end of
\* the call.
VARIABLES joints, animations, call, result, local

evalVars == <<joints, animations, call, result, local>>

\* World: the avators and camera invokers and the mode (`state` in the
\* source).  main: `running` and the position `pc` in the loop.  App::render:
\* `encoder` is what the last frame recorded, `elapsed` the timer reading it
\* used.  `handled` counts the events delivered; `toggles` is a history
\* variable, the number of M presses among them.
VARIABLES avators, camera, state, running, pc, encoder, elapsed, handled, toggles

worldVars ==
    <<avators, camera, state, running, pc, encoder, elapsed, handled, toggles>>

vars == <<joints, animations, call, result, local,
          avators, camera, state, running, pc, encoder, elapsed, handled, toggles>>

\* A matrix of the loaded data: an affine map with x scaled by c, x sheared by
\* a along y, and translated by (b, 1, 0).  Two of them with different shears
\* do not commute.
DataMat(c, a, b) ==
    [n |-> << <<c, a, 0, b>>, <<0, 1, 0, 1>>, <<0, 0, 1, 0>>, <<0, 0, 0, 1>> >>, d |-> 1]

\* The bind and inverse bind matrices loaded for joint i, and the pose of
\* sample s of joint i's track: pairwise different matrices, none the identity.
BindOf(i) == DataMat(1, i + 1, 0)
InverseOf(i) == DataMat(2, -1, i + 1)
PoseOf(i, s) == DataMat(1 + (s % 2), s - i, s + 1)

\* query_skeleton: the joints ordered by JointIndex, each inserted at its own
\* joint_index, global = bind.  parents[k] is the ParentIndex of joint k - 1.
Skeleton(parents) ==
    [k \in 1..Len(parents) |->
        [joint_index |-> k - 1, global |-> BindOf(k - 1), bind |-> BindOf(k - 1),
         parent |-> parents[k], inverse |-> InverseOf(k - 1)]]

\* The parent of the joint at position k (index k - 1) is the root sentinel or
\* an earlier joint.
ParentOk(parents, k) == parents[k] = RootSentinel \/ parents[k] < k - 1

\* Parent columns: every ordering in which each parent is the root sentinel
\* or an earlier joint, and those with one joint whose parent is itself or a
\* later joint, the joints after it being roots.
ParentColumns(n) ==
    { parents \in [1..n -> {RootSentinel} \cup 0..(n - 1)] :
        \A k \in 1..n :
            ~ParentOk(parents, k) =>
                \A m \in 1..n : m # k => /\ ParentOk(parents, m)
                                         /\ (m > k => parents[m] = RootSentinel) }

\* Three parent columns: a chain (each joint the child of the one before), a
\* star (each joint the child of joint 0) and roots only.
Chain(n) == [k \in 1..n |-> IF k = 1 THEN RootSentinel ELSE k - 2]
Star(n) == [k \in 1..n |-> IF k = 1 THEN RootSentinel ELSE 0]
Roots(n) == [k \in 1..n |-> RootSentinel]

\* A track of `length` samples for joint i, evenly spaced over the cycle.
Track(i, length) ==
    [s \in 1..length |->
        [time |-> (s - 1) * (TicksPerCycle \div length), pose |-> PoseOf(i, s - 1)]]

\* Animation lists for n joints: a list of at most n tracks, each either
\* empty or of one common length in 1..MaxLen.
AnimationLists(n) ==
    { [k \in 1..m |-> IF k \in animated THEN Track(k - 1, length) ELSE <<>>] :
        <<m, length, animated>> \in
            { x \in (0..n) \X (1..MaxLen) \X (SUBSET (1..n)) : x[3] \subseteq 1..x[1] } }

\* No track at all, or a track of one common length for every joint.
FullAnimationLists(n) ==
    { <<>> } \cup { [k \in 1..n |-> Track(k - 1, length)] : length \in 1..MaxLen }

\* The objects drawn, as <<parent column, animation list>>: every parent
\* column with the full animation lists, and the chain, the star and the
\* roots with every animation list.
Objects(n) ==
    (ParentColumns(n) \X FullAnimationLists(n))
        \cup ({Chain(n), Star(n), Roots(n)} \X AnimationLists(n))

NoCall == [fn |-> "none", arg |-> 0]
NoResult == [panicked |-> FALSE, skinning |-> <<>>]

\* Elapsed times (in ticks) and frame indices the evaluators are called with:
\* two cycles of each.
Times == 0..(2 * TicksPerCycle - 1)
Frames == 0..(2 * MaxLen - 1)

\* ------------------------------------------------------------ the Invoker

\* Vectors and points are triples of coordinates, counted in tenths of a unit
\* (the moves of the program are 0.1 and 0.5 long).
VecAdd(a, b) == <<a[1] + b[1], a[2] + b[2], a[3] + b[3]>>

\* Invoker::new(t).  `executed` is a history field, not a field of the struct:
\* the commands whose execute() the last execute_all_commands call ran, in
\* order.  `panicked` tells that an execute() panicked.
InvokerNew(t) ==
    [commands |-> <<>>, target |-> t, current_index |-> 0,
     executed |-> <<>>, panicked |-> FALSE]

\* Matrix4::look_at(position, target, up = (0, 0, 1)), uninterpreted.
LookAt(position, target) == [eye |-> position, center |-> target]

\* perspective * view, uninterpreted.
Projection(perspective, view) == [perspective |-> perspective, view |-> view]

\* update that recomputes the view and leaves the projection as it was
CameraUpdateViewOnly(c) == [c EXCEPT !.view = LookAt(c.position, c.target)]

\* Camera::update
CameraUpdate(c) ==
    LET view == LookAt(c.position, c.target)
    IN  [c EXCEPT !.view = view, !.projection = Projection(c.perspective, view)]

\* impl Command<Camera<f32>> for CameraCommand: execute
ExecuteCamera(cmd, c) ==
    IF cmd.type = "CameraCommand::Move"
    THEN [panicked |-> FALSE,
          target |-> CameraUpdate([c EXCEPT !.position = VecAdd(@, cmd.v)])]
    ELSE [panicked |-> FALSE,
          target |-> CameraUpdate([c EXCEPT !.target = cmd.v])]

\* execute that also drops the animation tracks of the avatar it moves
ExecuteAvatorsResetTracks(cmd, c) ==
    IF 1 \in DOMAIN c
    THEN [panicked |-> FALSE,
          target |-> [c EXCEPT ![1].position = VecAdd(@, cmd.v),
                               ![1].animations = <<>>]]
    ELSE [panicked |-> TRUE, target |-> c]

\* execute that skips the move when the map has no key 1
ExecuteAvatorsIfPresent(cmd, c) ==
    IF 1 \in DOMAIN c
    THEN [panicked |-> FALSE,
          target |-> [c EXCEPT ![1].position = VecAdd(@, cmd.v)]]
    ELSE [panicked |-> FALSE, target |-> c]

\* execute that translates every object of the map
ExecuteAvatorsMoveAll(cmd, c) ==
    IF 1 \in DOMAIN c
    THEN [panicked |-> FALSE,
          target |-> [id \in DOMAIN c |->
                        [c[id] EXCEPT !.position = VecAdd(@, cmd.v)]]]
    ELSE [panicked |-> TRUE, target |-> c]

\* impl Command<HashMap<i32, GameObject>> for AvatorCommand: execute;
\* c.get_mut(&1).unwrap() panics when the map has no key 1.
ExecuteAvators(cmd, c) ==
    IF 1 \in DOMAIN c
    THEN [panicked |-> FALSE,
          target |-> [c EXCEPT ![1].position = VecAdd(@, cmd.v)]]
    ELSE [panicked |-> TRUE, target |-> c]

\* c.execute(t), by the type of the command
Execute(cmd, t) ==
    IF cmd.type = "AvatorCommand::Move" THEN ExecuteAvators(cmd, t) ELSE ExecuteCamera(cmd, t)

\* execute_command without the `self.current_index += 1`
ExecuteCommandNoAdvance(inv) ==
    IF inv.panicked \/ Len(inv.commands) <= inv.current_index
    THEN inv
    ELSE LET c == inv.commands[inv.current_index + 1]
             r == Execute(c, inv.target)
         IN  IF r.panicked
             THEN [inv EXCEPT !.panicked = TRUE]
             ELSE [inv EXCEPT !.target = r.target, !.executed = Append(@, c)]

\* Invoker::execute_command
ExecuteCommand(inv) ==
    IF inv.panicked \/ Len(inv.commands) <= inv.current_index
    THEN inv
    ELSE LET c == inv.commands[inv.current_index + 1]
             r == Execute(c, inv.target)
         IN  IF r.panicked
             THEN [inv EXCEPT !.panicked = TRUE]
             ELSE [inv EXCEPT !.target = r.target,
                              !.executed = Append(@, c),
                              !.current_index = @ + 1]

RECURSIVE ExecuteCommands(_, _)
\* for _ in range { self.execute_command(); }, the range being n long
ExecuteCommands(inv, n) ==
    IF n <= 0 THEN inv ELSE ExecuteCommands(ExecuteCommand(inv), n - 1)

\* execute_all_commands that leaves the replay for later
ExecuteAllCommandsDeferred(inv) == inv

\* execute_all_commands without the `self.commands.clear()`
ExecuteAllCommandsNoClear(inv) ==
    LET ran == ExecuteCommands([inv EXCEPT !.executed = <<>>],
                               Len(inv.commands) - inv.current_index)
    IN  IF ran.panicked THEN ran ELSE [ran EXCEPT !.current_index = 0]

\* Invoker::execute_all_commands
ExecuteAllCommands(inv) ==
    LET ran == ExecuteCommands([inv EXCEPT !.executed = <<>>],
                               Len(inv.commands) - inv.current_index)
    IN  IF ran.panicked
        THEN ran
        ELSE [ran EXCEPT !.commands = <<>>, !.current_index = 0]

\* append_command that pushes at the front
AppendCommandFront(inv, c) == [inv EXCEPT !.commands = <<c>> \o @]

\* Invoker::append_command
AppendCommand(inv, c) == [inv EXCEPT !.commands = Append(@, c)]

\* ------------------------------------------------- the World and the loop

\* Most input events the event loop delivers in one run.
MaxEvents == 2

\* Latest reading of the world's timer, in ticks.
MaxElapsed == 1

\* The ids World::new loads: query_entry(&conn, device, &[1, 2])
AvatorIds == {1, 2}

\* query_entry: a GameObject at the origin.  Object 1 is loaded with a chain
\* of two animated joints and two mesh entries, object 2 with no joint, no
\* track and one mesh entry.
GameObject(id) ==
    IF id = 1
    THEN [position |-> <<0, 0, 0>>, entries |-> 2, joints |-> Skeleton(Chain(2)),
          animations |-> <<Track(0, 2), Track(1, 2)>>]
    ELSE [position |-> <<0, 0, 0>>, entries |-> 1, joints |-> <<>>, animations |-> <<>>]

\* Camera::new(position, target, perspective)
CameraNew(position, target) ==
    LET view == LookAt(position, target)
    IN  [position |-> position, target |-> target, view |-> view,
         perspective |-> "perspective",
         projection |-> Projection("perspective", view)]

\* The window events: the keys World::handle_input matches, one other event,
\* and the two events main treats as the exit signal.
InputEvents == {"L", "H", "J", "K", "W", "S", "A", "D", "M", "Other"}
ExitEvents == {"Closed", "Escape"}

\* World::new and main up to the loop.
InitWorld ==
    /\ avators = InvokerNew([id \in AvatorIds |-> GameObject(id)])
    /\ camera = InvokerNew(CameraNew(<<300, -400, 300>>, <<0, 0, 0>>))
    /\ state = "Render"
    /\ running = TRUE
    /\ pc = "poll"
    /\ encoder = <<>>
    /\ elapsed = 0
    /\ handled = 0
    /\ toggles = 0

AvatorMove(v) == [type |-> "AvatorCommand::Move", v |-> v]
CameraMove(v) == [type |-> "CameraCommand::Move", v |-> v]

\* handle_input that also takes every unmatched event for the M key
HandleInputAnyKeyToggles(ev) ==
    CASE ev = "L" -> <<AppendCommand(avators, AvatorMove(<<5, 0, 0>>)), camera, state>>
      [] ev = "H" -> <<AppendCommand(avators, AvatorMove(<<-5, 0, 0>>)), camera, state>>
      [] ev = "J" -> <<AppendCommand(avators, AvatorMove(<<0, -5, 0>>)), camera, state>>
      [] ev = "K" -> <<AppendCommand(avators, AvatorMove(<<0, 5, 0>>)), camera, state>>
      [] ev = "W" -> <<avators, AppendCommand(camera, CameraMove(<<0, 1, 0>>)), state>>
      [] ev = "S" -> <<avators, AppendCommand(camera, CameraMove(<<0, -1, 0>>)), state>>
      [] ev = "A" -> <<avators, AppendCommand(camera, CameraMove(<<-1, 0, 0>>)), state>>
      [] ev = "D" -> <<avators, AppendCommand(camera, CameraMove(<<1, 0, 0>>)), state>>
      [] OTHER -> <<avators, camera, IF state = "Render" THEN "Pose" ELSE "Render">>

\* World::handle_input: the World after the event, as
\* <<avators, camera, state>>.
HandleInput(ev) ==
    CASE ev = "L" -> <<AppendCommand(avators, AvatorMove(<<5, 0, 0>>)), camera, state>>
      [] ev = "H" -> <<AppendCommand(avators, AvatorMove(<<-5, 0, 0>>)), camera, state>>
      [] ev = "J" -> <<AppendCommand(avators, AvatorMove(<<0, -5, 0>>)), camera, state>>
      [] ev = "K" -> <<AppendCommand(avators, AvatorMove(<<0, 5, 0>>)), camera, state>>
      [] ev = "W" -> <<avators, AppendCommand(camera, CameraMove(<<0, 1, 0>>)), state>>
      [] ev = "S" -> <<avators, AppendCommand(camera, CameraMove(<<0, -1, 0>>)), state>>
      [] ev = "A" -> <<avators, AppendCommand(camera, CameraMove(<<-1, 0, 0>>)), state>>
      [] ev = "D" -> <<avators, AppendCommand(camera, CameraMove(<<1, 0, 0>>)), state>>
      [] ev = "M" -> <<avators, camera, IF state = "Render" THEN "Pose" ELSE "Render">>
      [] OTHER -> <<avators, camera, state>>

\* The callback main gives to poll_events, for an event other than the exit
\* signal: app.handle_input(event).
PollInput(ev) ==
    /\ pc = "poll"
    /\ handled < MaxEvents
    /\ handled' = handled + 1
    /\ toggles' = IF ev = "M" THEN toggles + 1 ELSE toggles
    /\ LET w == HandleInput(ev)
       IN  /\ avators' = w[1]
           /\ camera' = w[2]
           /\ state' = w[3]
    /\ UNCHANGED <<running, pc, encoder, elapsed>>
    /\ UNCHANGED evalVars

\* The callback for Closed or Escape pressed: running = false.
PollExit(ev) ==
    /\ pc = "poll"
    /\ handled < MaxEvents
    /\ handled' = handled + 1
    /\ running' = FALSE
    /\ UNCHANGED <<avators, camera, state, pc, encoder, elapsed, toggles>>
    /\ UNCHANGED evalVars

\* poll_events returns: no event is left.
PollDone ==
    /\ pc = "poll"
    /\ pc' = "render"
    /\ UNCHANGED <<avators, camera, state, running, encoder, elapsed, handled, toggles>>
    /\ UNCHANGED evalVars

\* GameObject::render with the buffer update moved after the draws
RenderObjectDrawFirst(id, obj, cam, time) ==
    LET a == GetSkinning(obj.joints, obj.animations, time)
    IN  IF a.panicked \/ Len(a.skinning) > SkinningCapacity
        THEN [panicked |-> TRUE, recorded |-> <<>>]
        ELSE [panicked |-> FALSE,
              recorded |->
                  [e \in 1..obj.entries |->
                      [op |-> "draw", pso |-> "pso", object |-> id, entry |-> e,
                       view |-> cam.view, position |-> obj.position]]
                  \o << [op |-> "update_buffer", object |-> id, data |-> a.skinning] >>]

\* GameObject::render: the skinning buffer is updated with get_skinning, then
\* one draw per entry, with the model-view matrix made of the camera's view
\* and the object's position.  The commands recorded, or a panic:
\* update_buffer returns an error for data longer than the buffer, and
\* expect("ub") panics on it.
RenderObject(id, obj, cam, time) ==
    LET a == GetSkinning(obj.joints, obj.animations, time)
    IN  IF a.panicked \/ Len(a.skinning) > SkinningCapacity
        THEN [panicked |-> TRUE, recorded |-> <<>>]
        ELSE [panicked |-> FALSE,
              recorded |->
                  << [op |-> "update_buffer", object |-> id, data |-> a.skinning] >>
                  \o [e \in 1..obj.entries |->
                         [op |-> "draw", pso |-> "pso", object |-> id, entry |-> e,
                          view |-> cam.view, position |-> obj.position]]]

RECURSIVE RenderObjects(_, _)
\* for obj in self.avators.target.values() { obj.render(..) }, in the order
\* `order` of the map's iteration; rendered[id] is what obj.render does
RenderObjects(order, rendered) ==
    IF order = <<>>
    THEN [panicked |-> FALSE, recorded |-> <<>>]
    ELSE LET first == rendered[Head(order)]
             rest  == RenderObjects(Tail(order), rendered)
         IN  IF first.panicked \/ rest.panicked
             THEN [panicked |-> TRUE, recorded |-> <<>>]
             ELSE [panicked |-> FALSE, recorded |-> first.recorded \o rest.recorded]

\* World::render: the objects, the elapsed-time text, and in Pose mode the
\* reference quad and the inspection text.
WorldRender(order, rendered, mode) ==
    LET objs == RenderObjects(order, rendered)
    IN  IF objs.panicked
        THEN objs
        ELSE [panicked |-> FALSE,
              recorded |->
                  objs.recorded
                  \o << [op |-> "draw", pso |-> "pso_w2"] >>
                  \o (IF mode = "Pose"
                      THEN << [op |-> "draw", pso |-> "pso_p"],
                              [op |-> "draw", pso |-> "pso_pt"] >>
                      ELSE <<>>)]

\* The orders in which a map with these keys may be iterated.
Orders(keys) ==
    { order \in [1..Cardinality(keys) -> keys] :
        \A i, j \in 1..Cardinality(keys) : i # j => order[i] # order[j] }

\* A loop test that goes on whatever `running` is.
LoopTestAlways(r) == "poll"

\* while running: the next iteration polls, or the loop and main end.
LoopTest(r) == IF r THEN "poll" ELSE "exited"

\* App::render, then the loop test of main: pre_render runs
\* World::execute_all_commands (the avators' queue, then the camera's), the
\* frame is cleared and World::render records it.  The timer has not gone back.
Render ==
    /\ pc = "render"
    /\ LET a == ExecuteAllCommands(avators)
           c == IF a.panicked THEN camera ELSE ExecuteAllCommands(camera)
       IN  /\ avators' = a
           /\ camera' = c
           /\ \E time \in elapsed..MaxElapsed :
                 /\ elapsed' = time
                 /\ \E rendered \in { [id \in DOMAIN a.target |->
                                         RenderObject(id, a.target[id], c.target, time)] } :
                    \E order \in Orders(DOMAIN a.target) :
                       LET drawn == WorldRender(order, rendered, state)
                       IN  IF a.panicked \/ c.panicked \/ drawn.panicked
                           THEN /\ pc' = "panicked"
                                /\ encoder' = <<>>
                           ELSE /\ pc' = LoopTest(running)
                                /\ encoder' =
                                      << [op |-> "clear"], [op |-> "clear_depth"] >>
                                          \o drawn.recorded
    /\ UNCHANGED <<state, running, handled, toggles>>
    /\ UNCHANGED evalVars

Next ==
    \/ \E ev \in InputEvents : PollInput(ev)
    \/ \E ev \in ExitEvents : PollExit(ev)
    \/ PollDone
    \/ Render

\* The program: World::new, then the loop of main.  No evaluator is called
\* outside a frame, so the variables of the evaluated object stand still.
Init ==
    /\ InitWorld
    /\ joints = <<>>
    /\ animations = <<>>
    /\ call = NoCall
    /\ result = NoResult
    /\ local = <<>>

Spec == Init /\ [][Next]_vars

\* app.render() returns or panics: the step of Render, told by pc alone.
RenderReturns == pc = "render" /\ pc' \in {"poll", "exited", "panicked"}

\* main runs on one thread and blocks nowhere: poll_events returns once the
\* events that are there have been delivered, and app.render() returns.
SpecLive == Init /\ [][Next]_vars /\ WF_vars(PollDone) /\ WF_pc(RenderReturns)

\* ----------------------------------------- the World with a large skeleton

\* query_skeleton returns one Joint per row of the object's skeleton, however
\* many: an object of n root joints, no track and one mesh entry.
LargeObject(n) ==
    [position |-> <<0, 0, 0>>, entries |-> 1, joints |-> Skeleton(Roots(n)),
     animations |-> <<>>]

\* World::new when the skeleton of object 1 has one joint more than the
\* skinning buffer has room for.
InitLarge ==
    /\ avators = InvokerNew([id \in AvatorIds |->
                     IF id = 1 THEN LargeObject(SkinningCapacity + 1) ELSE GameObject(id)])
    /\ camera = InvokerNew(CameraNew(<<300, -400, 300>>, <<0, 0, 0>>))
    /\ state = "Render"
    /\ running = TRUE
    /\ pc = "poll"
    /\ encoder = <<>>
    /\ elapsed = 0
    /\ handled = 0
    /\ toggles = 0
    /\ joints = <<>>
    /\ animations = <<>>
    /\ call = NoCall
    /\ result = NoResult
    /\ local = <<>>

SpecLarge == InitLarge /\ [][Next]_vars

\* ------------------------------------------------- the evaluators called

\* A GameObject as query_entry may load it, beside a World that stands still.
InitEval ==
    /\ \E n \in 0..MaxJoints : \E object \in Objects(n) :
          /\ joints = Skeleton(object[1])
          /\ animations = object[2]
    /\ call = NoCall
    /\ result = NoResult
    /\ local = <<>>
    /\ InitWorld

\* let a = self.get_skinning(elapsed)
CallGetSkinning(time) ==
    /\ call = NoCall
    /\ call' = [fn |-> "get_skinning", arg |-> time]
    /\ LET r == GetSkinning(joints, animations, time)
       IN  /\ result' = [panicked |-> r.panicked, skinning |-> r.skinning]
           /\ local' = r.local
    /\ UNCHANGED <<joints, animations>>
    /\ UNCHANGED worldVars

\* self.get_skinning_at(index)
CallGetSkinningAt(index) ==
    /\ call = NoCall
    /\ call' = [fn |-> "get_skinning_at", arg |-> index]
    /\ LET r == GetSkinningAt(joints, animations, index)
       IN  /\ result' = [panicked |-> r.panicked, skinning |-> r.skinning]
           /\ local' = r.local
    /\ UNCHANGED <<joints, animations>>
    /\ UNCHANGED worldVars

\* The returned Vec<Skinning> goes out of scope; a panic ended the process.
Return ==
    /\ call # NoCall
    /\ ~result.panicked
    /\ call' = NoCall
    /\ result' = NoResult
    /\ local' = <<>>
    /\ UNCHANGED <<joints, animations>>
    /\ UNCHANGED worldVars

NextEval ==
    \/ \E time \in Times : CallGetSkinning(time)
    \/ \E index \in Frames : CallGetSkinningAt(index)
    \/ Return

\* A GameObject loaded and its evaluators called on it.
SpecEval == InitEval /\ [][NextEval]_vars

\* ------------------------------------- the Invoker and the Commands alone

\* The Invoker with any command of its Command type and any target: the
\* camera also receives LookAt commands, which handle_input never appends,
\* and the entity map may hold any of the ids, avatar 1 or not.  Here
\* `handled` counts the commands appended.
CameraLookAt(v) == [type |-> "CameraCommand::LookAt", v |-> v]

AvatorCommands ==
    { AvatorMove(v) : v \in {<<5, 0, 0>>, <<-5, 0, 0>>, <<0, -5, 0>>, <<0, 5, 0>>} }

CameraCommands ==
    { CameraMove(v) : v \in {<<0, 1, 0>>, <<0, -1, 0>>, <<-1, 0, 0>>, <<1, 0, 0>>} }
        \cup { CameraLookAt(v) : v \in {<<0, 0, 0>>, <<10, 0, 0>>} }

InitInvoker ==
    /\ \E ids \in SUBSET AvatorIds :
          avators = InvokerNew([id \in ids |-> GameObject(id)])
    /\ camera = InvokerNew(CameraNew(<<300, -400, 300>>, <<0, 0, 0>>))
    /\ state = "Render"
    /\ running = TRUE
    /\ pc = "poll"
    /\ encoder = <<>>
    /\ elapsed = 0
    /\ handled = 0
    /\ toggles = 0
    /\ joints = <<>>
    /\ animations = <<>>
    /\ call = NoCall
    /\ result = NoResult
    /\ local = <<>>

\* avators.append_command(c)
AppendAvatorCommand(c) ==
    /\ ~avators.panicked /\ ~camera.panicked
    /\ handled < MaxEvents
    /\ handled' = handled + 1
    /\ avators' = AppendCommand(avators, c)
    /\ UNCHANGED <<camera, state, running, pc, encoder, elapsed, toggles>>
    /\ UNCHANGED evalVars

\* camera.append_command(c)
AppendCameraCommand(c) ==
    /\ ~avators.panicked /\ ~camera.panicked
    /\ handled < MaxEvents
    /\ handled' = handled + 1
    /\ camera' = AppendCommand(camera, c)
    /\ UNCHANGED <<avators, state, running, pc, encoder, elapsed, toggles>>
    /\ UNCHANGED evalVars

\* avators.execute_all_commands(); a panic ends the process
ExecuteAllAvatorCommands ==
    /\ ~avators.panicked /\ ~camera.panicked
    /\ avators' = ExecuteAllCommands(avators)
    /\ UNCHANGED <<camera, state, running, pc, encoder, elapsed, handled, toggles>>
    /\ UNCHANGED evalVars

\* camera.execute_all_commands()
ExecuteAllCameraCommands ==
    /\ ~avators.panicked /\ ~camera.panicked
    /\ camera' = ExecuteAllCommands(camera)
    /\ UNCHANGED <<avators, state, running, pc, encoder, elapsed, handled, toggles>>
    /\ UNCHANGED evalVars

NextInvoker ==
    \/ \E c \in AvatorCommands : AppendAvatorCommand(c)
    \/ \E c \in CameraCommands : AppendCameraCommand(c)
    \/ ExecuteAllAvatorCommands
    \/ ExecuteAllCameraCommands

SpecInvoker == InitInvoker /\ [][NextInvoker]_vars

\* --------------------------------------------- properties of the Invokers

RECURSIVE AppliedInOrder(_, _)
\* The target after the commands cmds are executed on t, first to last.
AppliedInOrder(cmds, t) ==
    IF cmds = <<>> THEN t ELSE AppliedInOrder(Tail(cmds), Execute(Head(cmds), t).target)

\* The commands of an invoker that are not executed yet.
Pending(inv) == SubSeq(inv.commands, inv.current_index + 1, Len(inv.commands))

\* What one execute_all_commands call turns `before` into `after`: every
\* pending command executed once, in the order of the queue.
RanInOrder(before, after) ==
    /\ ~after.panicked
    /\ after.executed = Pending(before)
    /\ after.target = AppliedInOrder(Pending(before), before.target)

\* A sequence of two or more commands that starts with two different ones.
TwoDifferent(cmds) == Len(cmds) >= 2 /\ cmds[1] # cmds[2]

\* C1: the execute_all_commands of a frame executes the commands appended
\* since the last one in the order they were appended, each once, none
\* skipped or repeated, on the avators and on the camera.
C1_ExecuteAllInOrder ==
    [][pc = "render" => RanInOrder(avators, avators') /\ RanInOrder(camera, camera')]_vars

\* C1 happens: a frame has executed two different avatar moves, or two
\* different camera moves.
C1_Witness ==
    /\ pc \in {"poll", "exited"}
    /\ TwoDifferent(avators.executed) \/ TwoDifferent(camera.executed)

\* An invoker with nothing queued, the cursor at the start.
Drained(inv) == inv.commands = <<>> /\ inv.current_index = 0

\* An execute_all_commands call leaves `before` drained, and one more call
\* right after it changes neither target, queue nor cursor; a call that finds
\* nothing pending leaves the target as it is.
DrainedAndIdempotent(before, after) ==
    /\ Drained(after)
    /\ LET again == ExecuteAllCommands(after)
       IN  /\ again.target = after.target
           /\ again.commands = after.commands
           /\ again.current_index = after.current_index
    /\ (Pending(before) = <<>> => after.target = before.target)

\* C2: after the execute_all_commands of a frame the queue is empty and the
\* cursor is 0, and an execute_all_commands with no append in between leaves
\* target, queue and cursor unchanged.
C2_ExecuteAllDrains ==
    [][pc = "render" =>
          DrainedAndIdempotent(avators, avators') /\ DrainedAndIdempotent(camera, camera')]_vars

\* C2 happens: the last frame found both queues empty, after an earlier frame
\* that moved avatar 1.
C2_Witness ==
    /\ pc \in {"poll", "exited"}
    /\ avators.executed = <<>> /\ camera.executed = <<>>
    /\ Drained(avators) /\ Drained(camera)
    /\ avators.target[1].position # <<0, 0, 0>>

\* The queue of `after` is that of `before`, or that with one command more at
\* its end; target, cursor and executed commands are those of `before`.
OnlyAppended(before, after) ==
    /\ after.target = before.target
    /\ after.current_index = before.current_index
    /\ after.executed = before.executed
    /\ \/ after.commands = before.commands
       \/ /\ Len(after.commands) = Len(before.commands) + 1
          /\ SubSeq(after.commands, 1, Len(before.commands)) = before.commands

\* C3: handling an input event, which is where append_command is called, only
\* adds a command at the end of a queue: targets and cursors are unchanged
\* and the commands queued before keep their places.
C3_AppendOnlyAdds ==
    [][pc = "poll" => OnlyAppended(avators, avators') /\ OnlyAppended(camera, camera')]_vars

\* C3 happens: two different commands wait in one queue, appended one after
\* the other.
C3_Witness ==
    /\ pc = "poll"
    /\ TwoDifferent(avators.commands) \/ TwoDifferent(camera.commands)

\* ------------------------------------------------ properties of the World

\* C11: the mode is Render when the number of M presses handled so far is
\* even and Pose when it is odd, whatever else was handled, replayed or
\* rendered in between.
C11_ModeIsToggleParity ==
    state = (IF toggles % 2 = 0 THEN "Render" ELSE "Pose")

\* C11 happens: after two M presses and a frame rendered in Pose mode, the
\* mode is Render again.
C11_Witness ==
    /\ toggles = 2
    /\ state = "Render"
    /\ \E i \in 1..Len(encoder) : encoder[i].op = "draw" /\ encoder[i].pso = "pso_p"

\* The draw calls of the frame in `enc` for the mesh entries of objects.
ObjectDraws(enc) == { i \in 1..Len(enc) : enc[i].op = "draw" /\ enc[i].pso = "pso" }

\* C16: a frame draws every object at the position, and through the camera
\* view, that result from applying all the commands queued since the frame
\* before, and leaves both queues empty; handling an input changes no
\* avatar and not the camera.
C16_ReplayBeforeDraw ==
    [][/\ pc = "render" =>
            LET objects == AppliedInOrder(Pending(avators), avators.target)
                cam     == AppliedInOrder(Pending(camera), camera.target)
            IN  /\ Drained(avators') /\ Drained(camera')
                /\ \A id \in DOMAIN objects :
                      \E i \in ObjectDraws(encoder') : encoder'[i].object = id
                /\ \A i \in ObjectDraws(encoder') :
                      /\ encoder'[i].position = objects[encoder'[i].object].position
                      /\ encoder'[i].view = cam.view
       /\ pc = "poll" =>
            /\ avators'.target = avators.target
            /\ camera'.target = camera.target]_vars

\* C16 happens: a frame has drawn avatar 1 away from the origin through a
\* camera that has moved, both moves appended since the frame before.
C16_Witness ==
    /\ pc \in {"poll", "exited"}
    /\ avators.executed # <<>> /\ camera.executed # <<>>
    /\ \E i \in ObjectDraws(encoder) :
          /\ encoder[i].object = 1
          /\ encoder[i].position # <<0, 0, 0>>
          /\ encoder[i].view # LookAt(<<300, -400, 300>>, <<0, 0, 0>>)

\* The writes of the skinning buffer of object id in the frame `enc`.
BufferWrites(enc, id) ==
    { i \in 1..Len(enc) : enc[i].op = "update_buffer" /\ enc[i].object = id }

\* C17: in the frame recorded last, every object has exactly one write of
\* its skinning buffer, before all the draws of its mesh entries, and
\* exactly one draw per mesh entry.
C17_OneBufferWriteThenDraws ==
    encoder # <<>> =>
        \A id \in DOMAIN avators.target :
            LET draws == { i \in ObjectDraws(encoder) : encoder[i].object = id }
            IN  /\ Cardinality(BufferWrites(encoder, id)) = 1
                /\ \A w \in BufferWrites(encoder, id) : \A i \in draws : w < i
                /\ Cardinality(draws) = avators.target[id].entries
                /\ \A e \in 1..avators.target[id].entries :
                      Cardinality({ i \in draws : encoder[i].entry = e }) = 1

\* C17 happens: a frame with the two objects, object 2 rendered before
\* object 1, which has two mesh entries.
C17_Witness ==
    /\ encoder # <<>>
    /\ avators.target[1].entries = 2
    /\ \E w1 \in BufferWrites(encoder, 1) : \E w2 \in BufferWrites(encoder, 2) : w2 < w1

\* C19: no step of the program changes which objects are loaded, nor the
\* joints, the animation tracks or the mesh entries of any of them.
C19_SkeletonIsImmutable ==
    [][/\ DOMAIN avators'.target = DOMAIN avators.target
       /\ \A id \in DOMAIN avators.target :
             /\ avators'.target[id].joints = avators.target[id].joints
             /\ avators'.target[id].animations = avators.target[id].animations
             /\ avators'.target[id].entries = avators.target[id].entries]_vars

\* C19 happens: avatar 1, loaded with joints and tracks, has been moved by a
\* replayed command, the mode has been toggled and a frame has evaluated the
\* poses.
C19_Witness ==
    /\ avators.target[1].position # <<0, 0, 0>>
    /\ avators.target[1].joints # <<>> /\ avators.target[1].animations # <<>>
    /\ toggles > 0
    /\ \E w \in BufferWrites(encoder, 1) : Len(encoder[w].data) = Len(avators.target[1].joints)

\* A frame has been rendered, or has panicked while it was.
FrameAttempted == encoder # <<>> \/ pc = "panicked"

\* C21 (as claimed): in every frame, the matrices get_skinning produces for
\* the upload of an object are at most as many as the skinning buffer holds.
C21_SkinningFitsBuffer ==
    FrameAttempted =>
        \A id \in DOMAIN avators.target :
            Len(GetSkinning(avators.target[id].joints, avators.target[id].animations,
                            elapsed).skinning) <= SkinningCapacity

\* ------------------------------------------- properties of the evaluators

\* Every joint's parent is the root sentinel or a joint of smaller index.
WellOrdered == \A k \in 1..Len(joints) :
    joints[k].parent = RootSentinel \/ (0 <= joints[k].parent /\ joints[k].parent < k - 1)

\* A call has returned (not panicked) its matrices.
Returned(fn) == call.fn = fn /\ ~result.panicked

\* The joint at position k (index k - 1) has a non-empty track.
Animated(k) == k <= Len(animations) /\ Len(animations[k]) > 0

\* parent_world of the joint at position k: the identity for a root, else the
\* scratch entry of its parent.
ParentWorld(k) ==
    IF joints[k].parent = RootSentinel THEN One ELSE local[joints[k].parent + 1]

\* a * b * c, in lowest terms
Product3(a, b, c) == Reduced(MatMul(MatMul(a, b), c))

\* The component-wise arithmetic mean of two matrices.
Mean(a, b) == MatScale(MatAdd(a, b), 1, 2)

\* The elapsed time `time` is k * 4.0 / length for an integer k.
OnSample(time, length) == (time * length) % TicksPerCycle = 0

\* The elapsed time `time` is (i + 1/2) * 4.0 / length for an integer i.
OnMidpoint(time, length) ==
    /\ (2 * time * length) % TicksPerCycle = 0
    /\ (time * length) % TicksPerCycle # 0

\* C4 (as claimed): after a time-based evaluation, every joint with no track
\* or an empty track has the output parent_world * bind.
C4_UnanimatedIsParentWorldTimesBind ==
    Returned("get_skinning") =>
        \A k \in 1..Len(joints) :
            ~Animated(k) =>
                result.skinning[k].transform
                    = Reduced(MatMul(ParentWorld(k), joints[k].bind))

\* C5: after a time-based evaluation at elapsed_time = k * 4.0 / L, every
\* joint with a track of length L has the output
\* parent_world * pose[k mod L] * inverse_bind; on a well-ordered skeleton the
\* evaluation returns.
C5_SampleBoundary ==
    (call.fn = "get_skinning" /\ WellOrdered) =>
        /\ ~result.panicked
        /\ \A j \in 1..Len(joints) :
              (Animated(j) /\ OnSample(call.arg, Len(animations[j]))) =>
                  LET L == Len(animations[j])
                      k == (call.arg * L) \div TicksPerCycle
                  IN  result.skinning[j].transform
                        = Product3(ParentWorld(j), animations[j][(k % L) + 1].pose,
                                   joints[j].inverse)

\* C5 happens: a second-cycle boundary (k >= L, k mod L # 0) of a track on a
\* joint whose parent is another joint.
C5_Witness ==
    /\ Returned("get_skinning")
    /\ \E j \in 1..Len(joints) :
          /\ Animated(j)
          /\ joints[j].parent # RootSentinel
          /\ OnSample(call.arg, Len(animations[j]))
          /\ call.arg > TicksPerCycle
          /\ call.arg % TicksPerCycle # 0

\* C6: after a time-based evaluation at elapsed_time = (i + 1/2) * 4.0 / L,
\* i in 0..L-1, the blended pose of every track of length L is the mean of
\* pose[i] and pose[(i + 1) mod L], and the joint's output is
\* parent_world * mean * inverse_bind.
C6_Midpoint ==
    (call.fn = "get_skinning" /\ WellOrdered /\ call.arg < TicksPerCycle) =>
        /\ ~result.panicked
        /\ \A j \in 1..Len(joints) :
              (Animated(j) /\ OnMidpoint(call.arg, Len(animations[j]))) =>
                  LET v == animations[j]
                      L == Len(v)
                      i == (call.arg * L) \div TicksPerCycle
                      mean == Mean(v[i + 1].pose, v[((i + 1) % L) + 1].pose)
                      blended == BlendedPose(v, call.arg)
                  IN  /\ ~blended.panicked
                      /\ Reduced(blended.pose) = Reduced(mean)
                      /\ result.skinning[j].transform
                            = Product3(ParentWorld(j), mean, joints[j].inverse)

\* C6 happens: the midpoint after the last sample of a track of two or more
\* samples, which blends the last sample with the first.
C6_Witness ==
    /\ Returned("get_skinning")
    /\ call.arg < TicksPerCycle
    /\ \E j \in 1..Len(joints) :
          /\ Animated(j)
          /\ Len(animations[j]) >= 2
          /\ OnMidpoint(call.arg, Len(animations[j]))
          /\ (call.arg * Len(animations[j])) \div TicksPerCycle = Len(animations[j]) - 1

\* C7: a time-based evaluation at t returns what the evaluation at t + 4.0
\* returns.
C7_TimePeriodic ==
    call.fn = "get_skinning" =>
        LET later == GetSkinning(joints, animations, call.arg + TicksPerCycle)
        IN  result = [panicked |-> later.panicked, skinning |-> later.skinning]

\* C7 happens: an evaluation that returned, strictly between two samples of a
\* track of two or more samples.
C7_Witness ==
    /\ Returned("get_skinning")
    /\ \E j \in 1..Len(joints) :
          /\ Animated(j)
          /\ Len(animations[j]) >= 2
          /\ ~OnSample(call.arg, Len(animations[j]))
          /\ ~OnMidpoint(call.arg, Len(animations[j]))

\* C8: on a well-ordered skeleton of one or more joints, either evaluator
\* returns one matrix per joint, the k-th being the matrix its closure
\* computes for the k-th joint from the scratch entries of the joints before.
C8_OnePerJointInOrder ==
    (call.fn # "none" /\ Len(joints) > 0 /\ WellOrdered) =>
        /\ ~result.panicked
        /\ Len(result.skinning) = Len(joints)
        /\ \A k \in 1..Len(joints) :
              result.skinning[k] =
                  IF call.fn = "get_skinning"
                  THEN JointSkinning(joints[k], animations,
                                     SubSeq(local, 1, k - 1), call.arg).skinning
                  ELSE JointSkinningAt(joints[k], animations,
                                       SubSeq(local, 1, k - 1), call.arg).skinning

\* C8 happens: a returned evaluation of a skeleton of MaxJoints joints, not
\* all of them roots.
C8_Witness ==
    /\ call.fn # "none"
    /\ ~result.panicked
    /\ Len(joints) = MaxJoints
    /\ \E k \in 1..Len(joints) : joints[k].parent # RootSentinel

\* C9: for a skeleton of zero joints either evaluator returns exactly one
\* matrix, the identity.
C9_EmptySkeleton ==
    (call.fn # "none" /\ Len(joints) = 0) =>
        result = [panicked |-> FALSE, skinning |-> << [transform |-> One] >>]

\* C9 happens: get_skinning_at was called on a skeleton of zero joints.
C9_Witness == call.fn = "get_skinning_at" /\ Len(joints) = 0 /\ call.arg > 0

\* C10: when the non-empty tracks all have length L, a discrete-frame
\* evaluation at frame_index returns what the evaluation at frame_index + L
\* returns.
C10_FramePeriodic ==
    call.fn = "get_skinning_at" =>
        \A L \in 1..MaxLen :
            (\A k \in 1..Len(animations) :
                Len(animations[k]) > 0 => Len(animations[k]) = L) =>
                    LET later == GetSkinningAt(joints, animations, call.arg + L)
                    IN  result = [panicked |-> later.panicked,
                                  skinning |-> later.skinning]

\* C10 happens: a returned discrete-frame evaluation of a skeleton with a
\* track of two or more samples.
C10_Witness ==
    /\ Returned("get_skinning_at")
    /\ \E j \in 1..Len(joints) : Animated(j) /\ Len(animations[j]) >= 2

RECURSIVE AnimatedPath(_)
\* The joint at position k and all its ancestors have non-empty tracks (on a
\* well-ordered skeleton).
AnimatedPath(k) ==
    /\ Animated(k)
    /\ joints[k].parent # RootSentinel => AnimatedPath(joints[k].parent + 1)

RECURSIVE PoseChain(_, _)
\* The product, root first, of the blended poses at `time` of the ancestors
\* of the joint at position k and of that joint (on an animated path).
PoseChain(k, time) ==
    LET pose == BlendedPose(animations[k], time).pose
    IN  IF joints[k].parent = RootSentinel
        THEN pose
        ELSE Reduced(MatMul(PoseChain(joints[k].parent + 1, time), pose))

\* C12: after a time-based evaluation of a well-ordered skeleton, the output
\* of every joint whose ancestors and itself are animated is the product,
\* root first, of the ancestors' blended poses, then its own blended pose,
\* then its own inverse_bind; no ancestor's inverse_bind enters it.
C12_ChainIsProductOfPoses ==
    (Returned("get_skinning") /\ WellOrdered) =>
        \A k \in 1..Len(joints) :
            AnimatedPath(k) =>
                result.skinning[k].transform
                    = Reduced(MatMul(PoseChain(k, call.arg), joints[k].inverse))

\* C12 happens: a joint with an animated parent and an animated grandparent,
\* evaluated strictly between two samples.
C12_Witness ==
    /\ Returned("get_skinning")
    /\ WellOrdered
    /\ \E k \in 1..Len(joints) :
          /\ AnimatedPath(k)
          /\ joints[k].parent # RootSentinel
          /\ joints[joints[k].parent + 1].parent # RootSentinel
          /\ ~OnSample(call.arg, Len(animations[k]))

\* Some joint names the joint at position q as its parent.
HasChild(q) == \E k \in 1..Len(joints) : joints[k].parent = q - 1

\* C13 (as claimed): after either evaluator returns on a well-ordered
\* skeleton, the scratch entry that the children of a joint with no track or
\* an empty track read as their parent_world is that joint's parent_world
\* times its bind.
C13_UnanimatedWorldIsAccumulated ==
    ((Returned("get_skinning") \/ Returned("get_skinning_at")) /\ WellOrdered) =>
        \A q \in 1..Len(joints) :
            (~Animated(q) /\ HasChild(q)) =>
                local[q] = Reduced(MatMul(ParentWorld(q), joints[q].bind))

\* The parent of the joint at position k is neither the root sentinel nor an
\* earlier joint: it is the joint itself or a later one.
BadParent(k) == joints[k].parent # RootSentinel /\ joints[k].parent >= k - 1

\* The evaluator `fn` called with `arg` on the first k joints only.
EvaluatePrefix(fn, arg, k) ==
    IF fn = "get_skinning"
    THEN GetSkinning(SubSeq(joints, 1, k), animations, arg)
    ELSE GetSkinningAt(SubSeq(joints, 1, k), animations, arg)

\* C14: when some joint's parent is itself or a later joint, either evaluator
\* panics and returns no matrix; it panics at that joint, the joints before
\* it being evaluated without a panic.
C14_BadParentPanics ==
    call # NoCall =>
        \A k \in 1..Len(joints) :
            BadParent(k) =>
                /\ result.panicked
                /\ result.skinning = <<>>
                /\ EvaluatePrefix(call.fn, call.arg, k).panicked
                /\ k > 1 => ~EvaluatePrefix(call.fn, call.arg, k - 1).panicked

\* C14 happens: an evaluator was called on a skeleton whose second or later
\* joint names a later joint as its parent, after well-parented joints.
C14_Witness ==
    /\ call # NoCall
    /\ \E k \in 2..Len(joints) : BadParent(k) /\ joints[k].parent > k - 1
    /\ result.panicked

\* ------------------------------------- properties of the Commands alone

\* C15: an execute_all_commands that finds avatar moves pending and no
\* avatar 1 in the entity map panics at the first of them: no command is
\* executed, none is dropped from the queue, the cursor stays on it.
C15_MissingAvatarIsFatal ==
    [][(1 \notin DOMAIN avators.target /\ Pending(avators) # <<>> /\ avators' # avators
            /\ Len(avators'.commands) <= Len(avators.commands))
        => /\ avators'.panicked
           /\ avators'.executed = <<>>
           /\ avators'.commands = avators.commands
           /\ avators'.current_index = avators.current_index
           /\ avators'.target = avators.target]_vars

\* C15 happens: the replay panicked with two moves queued on a map that
\* holds object 2 only.
C15_Witness ==
    /\ avators.panicked
    /\ DOMAIN avators.target = {2}
    /\ Len(avators.commands) >= 2

\* The derived state of the camera c agrees with its position and target.
Consistent(c) ==
    /\ c.view = LookAt(c.position, c.target)
    /\ c.projection = Projection(c.perspective, c.view)

\* C18: the camera is consistent after construction and after every
\* execute_all_commands, and it is consistent after each of the pending
\* commands, Move or LookAt, is replayed, before the next one is.
C18_CameraDerivedState ==
    \A n \in 0..Len(Pending(camera)) :
        Consistent(AppliedInOrder(SubSeq(Pending(camera), 1, n), camera.target))

\* C18 happens: a LookAt at a new target and then a Move have been replayed.
C18_Witness ==
    /\ Len(camera.executed) = 2
    /\ camera.executed[1].type = "CameraCommand::LookAt"
    /\ camera.executed[2].type = "CameraCommand::Move"
    /\ camera.target.target # <<0, 0, 0>>
    /\ camera.target.position # <<300, -400, 300>>

\* The elapsed time, in ticks, of sample index mod length of a track of
\* `length` samples: (index mod length) * 4.0 / length.
SampleTime(index, length) == ((index % length) * TicksPerCycle) \div length

\* Every non-empty track has `length` samples.
TracksHaveLength(length) ==
    \A k \in 1..Len(animations) :
        Len(animations[k]) > 0 => Len(animations[k]) = length

\* C20: when the non-empty tracks all have length L, a discrete-frame
\* evaluation at frame index k returns what the time-based evaluation at
\* elapsed_time = (k mod L) * 4.0 / L returns (matrices or panic), for every
\* joint, animated or not.
C20_FrameIsTimeAtSample ==
    call.fn = "get_skinning_at" =>
        \A L \in 1..MaxLen :
            TracksHaveLength(L) =>
                LET timed == GetSkinning(joints, animations, SampleTime(call.arg, L))
                IN  result = [panicked |-> timed.panicked, skinning |-> timed.skinning]

\* C20 happens: a returned discrete-frame evaluation, at a frame index past
\* the end of a track of two or more samples and not a multiple of its
\* length, of a skeleton that also has a non-root joint without samples.
C20_Witness ==
    /\ Returned("get_skinning_at")
    /\ \E j \in 1..Len(joints) :
          /\ Animated(j)
          /\ Len(animations[j]) >= 2
          /\ call.arg > Len(animations[j])
          /\ call.arg % Len(animations[j]) # 0
    /\ \E k \in 1..Len(joints) : ~Animated(k) /\ joints[k].parent # RootSentinel

\* ------------------------------------------- properties of the sampling

\* index_1, index_2 and blend_factor of get_skinning for a track of `length`
\* samples at elapsed time `time`.
SamplePair(time, length) ==
    LET t == SamplePosition(time, length)
    IN  [index_1 |-> Floor(t), index_2 |-> Index2(Ceil(t), length),
         blend_factor |-> BlendFactor(t, Floor(t))]

\* The positions are positions of the track, the second is the first or the
\* one after it (cyclically), and the blend factor is in [0, 1).
ValidPair(s, length) ==
    /\ 0 <= s.index_1 /\ s.index_1 <= length - 1
    /\ 0 <= s.index_2 /\ s.index_2 <= length - 1
    /\ s.index_2 \in {s.index_1, (s.index_1 + 1) % length}
    /\ 0 <= s.blend_factor.num
    /\ s.blend_factor.num < s.blend_factor.den

\* C22: whenever get_skinning is called at an elapsed time t >= 0, for every
\* non-empty track of the object (length L >= 1) index_1 and index_2 are
\* within 0..L-1, index_2 is index_1 or (index_1 + 1) mod L, and
\* blend_factor is in [0, 1); so the indexing of the track does not panic.
C22_SamplePairIsValid ==
    call.fn = "get_skinning" =>
        \A k \in 1..Len(animations) :
            Animated(k) =>
                /\ ValidPair(SamplePair(call.arg, Len(animations[k])), Len(animations[k]))
                /\ ~BlendedPose(animations[k], call.arg).panicked

\* get_skinning has returned for a track of at least two samples, at a time
\* in the second cycle and within the last interval of the track: index_1 is
\* the last sample, index_2 has wrapped to the first, and blend_factor > 0.
C22_Witness ==
    /\ Returned("get_skinning")
    /\ call.arg >= TicksPerCycle
    /\ \E k \in 1..Len(joints) :
          /\ Animated(k)
          /\ Len(animations[k]) >= 2
          /\ LET s == SamplePair(call.arg, Len(animations[k]))
             IN  /\ s.index_1 = Len(animations[k]) - 1
                 /\ s.index_2 = 0
                 /\ s.blend_factor.num > 0

\* ------------------------------------------------ properties of the exit

\* The frame of a Render step replays what is queued in both invokers and
\* records a frame.
FrameReplaysQueues ==
    /\ avators'.executed = Pending(avators) /\ Drained(avators')
    /\ camera'.executed = Pending(camera) /\ Drained(camera')
    /\ encoder' # <<>>

\* C23: once Closed or Escape-pressed is polled (running = false), running
\* stays false; the callback of that event changes neither the avatars, the
\* camera, the display mode nor the frame (it is not handled as input); the
\* rest of this poll_events call draws nothing; the render of this iteration
\* replays the queued commands, draws the frame and is followed by the end of
\* the loop, after which nothing moves any more; and that end is reached.
C23_ExitEndsLoop ==
    /\ [][/\ ~running => ~running'
          /\ running /\ ~running' =>
                UNCHANGED <<avators, camera, state, toggles, encoder, elapsed, pc>>
          /\ ~running /\ pc = "poll" => pc' \in {"poll", "render"} /\ encoder' = encoder
          /\ ~running /\ pc = "render" => pc' = "exited" /\ FrameReplaysQueues
          /\ pc # "exited"]_vars
    /\ (~running ~> pc = "exited")

\* The loop has ended after an exit event, and its last render has replayed
\* a command that was still queued and drawn the frame.
C23_Witness ==
    /\ pc = "exited"
    /\ ~running
    /\ Len(avators.executed) + Len(camera.executed) > 0
    /\ ObjectDraws(encoder) # {}

\* --------------------------------------- properties of the avatar commands

\* The avatars other than avatar 1.
OtherAvators(objects) == DOMAIN objects \ {1}

RECURSIVE MoveSum(_)
\* The sum of the vectors of the Move commands cmds.
MoveSum(cmds) ==
    IF cmds = <<>> THEN <<0, 0, 0>> ELSE VecAdd(Head(cmds).v, MoveSum(Tail(cmds)))

\* C24: every avatar other than avatar 1 stays at (0, 0, 0), and is changed
\* by no step; the frame that replays queued avatar Moves adds their vectors
\* to the position of avatar 1; a step that finds no camera command pending,
\* whatever avatar commands it replays, leaves the camera (position, target
\* and what is derived of them) as it is.
C24_MovesOnlyAvatorOne ==
    /\ [](\A id \in OtherAvators(avators.target) :
             avators.target[id].position = <<0, 0, 0>>)
    /\ [][/\ \A id \in OtherAvators(avators.target) :
                avators'.target[id] = avators.target[id]
          /\ pc = "render" =>
                avators'.target[1].position =
                    VecAdd(avators.target[1].position, MoveSum(Pending(avators)))
          /\ Pending(camera) = <<>> => camera'.target = camera.target]_vars

\* A frame has replayed avatar Moves and no camera command: avatar 1 is away
\* from the origin, avatar 2 at it, and the camera where World::new put it.
C24_Witness ==
    /\ pc \in {"poll", "exited"}
    /\ avators.executed # <<>>
    /\ camera.executed = <<>>
    /\ avators.target[1].position # <<0, 0, 0>>
    /\ avators.target[2].position = <<0, 0, 0>>
    /\ camera.target = CameraNew(<<300, -400, 300>>, <<0, 0, 0>>)

====
